---- MODULE Spec2Model ----
(***************************************************************************)
(* The generation driver of candle-examples/examples/quantized-bitnet      *)
(* (main.rs): prompt assembly per mode, context-window truncation,         *)
(* sampler selection, prompt processing (batched or split), the            *)
(* token-by-token generation loop with its stop test, and the chat         *)
(* history kept across turns.                                              *)
(*                                                                         *)
(* Strings are sequences of pieces (a piece is a character or a template   *)
(* marker); tokens are the integers 0 .. VocabSize-1.  The model forward   *)
(* call, the tokenizer and the sampler are collaborators outside main.rs:  *)
(* forward returns any logits vector of LogitsSet, the tokenizer encodes   *)
(* piece by piece, the sampler follows section 4.3 of the specification.   *)
(***************************************************************************)
EXTENDS Integers, Sequences, FiniteSets, TLC

\* ------------------------------------------------------------------ bounds
VocabSize == 3          \* tokens are 0 .. VocabSize-1
MaxTurns == 2           \* iterations of the prompt loop that are explored
MaxSampleLen == 4       \* args.sample_len ranges over 0 .. MaxSampleLen
MaxLoopSampleLen == 2   \* ... and over 0 .. MaxLoopSampleLen in the looping modes
LongTextLen == 11       \* length of the long user text

\* ------------------------------------------------------- program constants
\* model::MAX_SEQ_LEN, scaled down from the model crate's value so that
\* the window MAX_SEQ_LEN - 10 is a few tokens wide.
MAX_SEQ_LEN == 12
\* the literal 10 of the context-window test
CONTEXT_MARGIN == 10
\* Args::seed default
DEFAULT_SEED == 299792458
\* Args::repeat_last_n default
DEFAULT_REPEAT_LAST_N == 64

Vocab == 0 .. (VocabSize - 1)
EosId == VocabSize - 1

\* usize::saturating_sub
SatSub(a, b) == IF a >= b THEN a - b ELSE 0

Last(s) == s[Len(s)]

IsSuffix(s, t) ==
    /\ Len(s) <= Len(t)
    /\ s = SubSeq(t, Len(t) - Len(s) + 1, Len(t))

\* ------------------------------------------------------------ Which (29-50)
Whichs == {"Falcon3_1b1_58", "Falcon3_3b1_58", "Falcon3_7b1_58",
           "Falcon3_10b1_58", "Llama3_8b1_58"}

is_falcon(w) ==
    w \in {"Falcon3_1b1_58", "Falcon3_3b1_58", "Falcon3_7b1_58", "Falcon3_10b1_58"}

is_llama(w) == w = "Llama3_8b1_58"

\* the families explored
ModelWhichs == {"Falcon3_1b1_58", "Llama3_8b1_58"}

\* ------------------------------------------------------------- user texts
LongText == [i \in 1 .. LongTextLen |-> IF i % 2 = 1 THEN "a" ELSE "b"]

Texts == {<< >>, <<"a">>, <<"a", "b", "a">>, LongText}

DEFAULT_PROMPT == <<"My", " favorite", " theorem", " is", " ">>

\* what one read_line call can append to the buffer: nothing at end of
\* input, otherwise a line with its terminator
StdinLines == {<<"\n">>, <<"a", "\n">>, <<"a", "b", "\r", "\n">>}

EndOfInput == << >>


\* ---------------------------------------------------- Option<T> (85-95)
NoneOpt == [some |-> FALSE]
SomeOpt(x) == [some |-> TRUE, v |-> x]

\* ------------------------------------------------- Prompt (22-27, 283-288)
\* args.prompt is an Option<String>; the strings "chat" and "interactive"
\* select the two looping modes.
PromptOf(arg) ==
    IF arg.some /\ arg.v = <<"chat">> THEN [kind |-> "Chat"]
    ELSE IF arg.some /\ arg.v = <<"interactive">> THEN [kind |-> "Interactive"]
    ELSE IF arg.some THEN [kind |-> "One", text |-> arg.v]
    ELSE [kind |-> "One", text |-> DEFAULT_PROMPT]

PromptArgs ==
    {NoneOpt, SomeOpt(<<"chat">>), SomeOpt(<<"interactive">>)}
        \cup {SomeOpt(t) : t \in Texts}

\* ------------------------------------------------ prompt rendering (292-326)
\* Prompt::One arm
RenderOne(w, text) ==
    IF is_falcon(w) THEN <<"<|user|>", "\n">> \o text \o <<"\n", "<|assistant|>">>
    ELSE IF is_llama(w) THEN text
    ELSE text

\* the line read from stdin with its terminator removed (310-315)
StripLine(line) ==
    IF Len(line) > 0 /\ Last(line) = "\n"
    THEN LET l1 == SubSeq(line, 1, Len(line) - 1)
         IN IF Len(l1) > 0 /\ Last(l1) = "\r"
            THEN SubSeq(l1, 1, Len(l1) - 1)
            ELSE l1
    ELSE line

\* Prompt::Interactive | Prompt::Chat arm, after the read
RenderInteractive(w, text) ==
    IF is_falcon(w) THEN <<"<|user|>", "\n">> \o text \o <<"\n", "<|assistant|>">>
    ELSE IF is_llama(w)
    THEN <<"<|start_header_id|>", "user", "<|end_header_id|>", "\n", "\n">>
            \o text
            \o <<"\n", "<|eot_id|>", "<|start_header_id|>", "assistant",
                 "<|end_header_id|>">>
    ELSE text

\* ------------------------------------------------------ tokenizer (328-331)
\* The end-of-sequence marker of the family (386-389).
EosMarker(w) ==
    IF w \in {"Falcon3_10b1_58", "Falcon3_7b1_58", "Falcon3_3b1_58", "Falcon3_1b1_58"}
    THEN "<|endoftext|>"
    ELSE "<|eot_id|>"

\* Tokenizer::encode on one piece: the family's end-of-sequence marker has
\* its own id when the vocabulary holds it.
TokenOf(piece, w, has_eos) ==
    IF piece = EosMarker(w) /\ has_eos THEN EosId
    ELSE IF piece \in {"b", "\n", "user", " favorite", " is"} THEN 1 % VocabSize
    ELSE 0

Encode(str, w, has_eos) == [i \in 1 .. Len(str) |-> TokenOf(str[i], w, has_eos)]

\* ------------------------------------------------ context window (340-346)
ToSample(sample_len) == SatSub(sample_len, 1)

\* ContextWindow keeping the oldest tokens instead of the newest
ContextWindow_KeepFront(toks, to_sample) ==
    IF Len(toks) + to_sample > MAX_SEQ_LEN - CONTEXT_MARGIN
    THEN LET to_remove == Len(toks) + to_sample + CONTEXT_MARGIN - MAX_SEQ_LEN
         IN SubSeq(toks, 1, IF to_remove < Len(toks) THEN to_remove ELSE Len(toks))
    ELSE toks

ContextWindow(tokens, to_sample) ==
    IF Len(tokens) + to_sample > MAX_SEQ_LEN - CONTEXT_MARGIN
    THEN LET to_remove == Len(tokens) + to_sample + CONTEXT_MARGIN - MAX_SEQ_LEN
             from == SatSub(Len(tokens), to_remove)
         IN SubSeq(tokens, from + 1, Len(tokens))
    ELSE tokens

\* ------------------------------------------------ sampler choice (348-361)
\* SamplingOf looking at temperature only when neither filter is set
SamplingOf_FiltersFirst(temperature, top_k, top_p) ==
    IF ~top_k.some /\ ~top_p.some
    THEN IF temperature <= 0 THEN [kind |-> "ArgMax"]
         ELSE [kind |-> "All", temperature |-> temperature]
    ELSE IF top_k.some /\ ~top_p.some
         THEN [kind |-> "TopK", k |-> top_k.v, temperature |-> temperature]
    ELSE IF ~top_k.some /\ top_p.some
         THEN [kind |-> "TopP", p |-> top_p.v, temperature |-> temperature]
    ELSE [kind |-> "TopKThenTopP", k |-> top_k.v, p |-> top_p.v,
          temperature |-> temperature]

SamplingOf(temperature, top_k, top_p) ==
    IF temperature <= 0 THEN [kind |-> "ArgMax"]
    ELSE IF ~top_k.some /\ ~top_p.some
         THEN [kind |-> "All", temperature |-> temperature]
    ELSE IF top_k.some /\ ~top_p.some
         THEN [kind |-> "TopK", k |-> top_k.v, temperature |-> temperature]
    ELSE IF ~top_k.some /\ top_p.some
         THEN [kind |-> "TopP", p |-> top_p.v, temperature |-> temperature]
    ELSE [kind |-> "TopKThenTopP", k |-> top_k.v, p |-> top_p.v,
          temperature |-> temperature]

\* LogitsProcessor::from_sampling(seed, sampling): the generator starts at
\* the seed; draws counts the values taken from it.
from_sampling(seed, sampling) == [seed |-> seed, draws |-> 0, sampling |-> sampling]

\* --------------------------------------------------------- Logits Sampler
\* A logits vector gives every token a score.
Peak(t) == [v \in Vocab |-> IF v = t THEN 4 ELSE IF v = (t + 1) % VocabSize THEN 3 ELSE 0]

\* the vectors a forward call returns here: one favouring token 0, one
\* favouring the end-of-sequence id
LogitsSet == {Peak(0), Peak(EosId)}

Better(l, a, b) == l[a] > l[b] \/ (l[a] = l[b] /\ a < b)

BestOf(l, S) == CHOOSE t \in S : \A u \in S \ {t} : Better(l, t, u)

RECURSIVE Ranked(_, _)
Ranked(l, S) ==
    IF S = {} THEN << >>
    ELSE LET t == BestOf(l, S) IN <<t>> \o Ranked(l, S \ {t})

sample_argmax(l) == BestOf(l, Vocab)

Prefix(s, n) == SubSeq(s, 1, IF n < Len(s) THEN n ELSE Len(s))

RECURSIVE Mass(_, _, _)
Mass(l, s, n) == IF n = 0 THEN 0 ELSE Mass(l, s, n - 1) + l[s[n]] + 1

\* the smallest prefix of the ranked candidates holding p percent of the mass
Nucleus(l, s, p) ==
    LET n == CHOOSE k \in 1 .. Len(s) :
                /\ 100 * Mass(l, s, k) >= p * Mass(l, s, Len(s))
                /\ \A j \in 1 .. (k - 1) : 100 * Mass(l, s, j) < p * Mass(l, s, Len(s))
    IN Prefix(s, n)

Candidates(sampling, l) ==
    LET all == Ranked(l, Vocab) IN
    IF sampling.kind = "All" THEN all
    ELSE IF sampling.kind = "TopK" THEN Prefix(all, sampling.k)
    ELSE IF sampling.kind = "TopP" THEN Nucleus(l, all, sampling.p)
    ELSE Nucleus(l, Prefix(all, sampling.k), sampling.p)

\* LogitsProcessor::sample: the token, and the processor after the call.
\* Greedy takes nothing from the generator; every other mode takes one draw.
Sample(lp, l) ==
    IF lp.sampling.kind = "ArgMax"
    THEN [token |-> sample_argmax(l), lp |-> lp]
    ELSE LET c == Candidates(lp.sampling, l)
         IN [token |-> c[((lp.seed + lp.draws) % Len(c)) + 1],
             lp |-> [lp EXCEPT !.draws = @ + 1]]

\* ------------------------------------------------- Repeat-Penalty Filter
Range(s) == {s[i] : i \in 1 .. Len(s)}

apply_repeat_penalty(l, penalty, ctx) ==
    [v \in Vocab |->
        IF v \in Range(ctx)
        THEN IF l[v] >= 0 THEN l[v] \div penalty ELSE l[v] * penalty
        ELSE l[v]]


\* ------------------------------------------------------------------ state
VARIABLES
    args,               \* the parsed command line (Args, 63-136)
    vocab_has_eos,      \* the tokenizer vocabulary holds the family's marker
    stdin_eof,          \* a read_line call has reported end of input
    prompt,             \* the Prompt enum value (283-288)
    prompt_index,       \* iterations of the prompt loop started (291)
    pc,                 \* where main is
    prompt_str,         \* the rendered prompt (292-326)
    tokens,             \* the encoding of prompt_str (328-331)
    combined,           \* prompt_tokens of line 339, before the window test
    pre_prompt_tokens,  \* 290, 439
    prompt_tokens,      \* prompt_tokens of line 341
    all_tokens,         \* 347
    logits_processor,   \* 348-361
    next_token,         \* 364
    logits,             \* the logits last given to the sampler (367, 374, 399)
    raw_logits,         \* the logits last returned by model.forward (366, 373, 397)
    penalty_ctx,        \* the last apply_repeat_penalty call of the turn (403-407)
    user_text,          \* the text of the turn before it is rendered (293, 308-315)
    pos,                \* position of the split prompt loop (371)
    index,              \* index of the generation loop (395)
    sampled,            \* 394
    eos_token,          \* 391
    tos_tokens,         \* tokens held by the TokenOutputStream (282)
    calls,              \* model.forward calls of this turn: <<position, length>>
    flushes             \* tos.decode_rest calls of this turn (420)

vars == <<args, vocab_has_eos, stdin_eof, prompt, prompt_index, pc, prompt_str,
          tokens, combined, pre_prompt_tokens, prompt_tokens, all_tokens,
          logits_processor, next_token, logits, raw_logits, penalty_ctx,
          user_text, pos, index, sampled, eos_token, tos_tokens, calls,
          flushes>>

cfg_vars == <<args, vocab_has_eos, prompt>>

\* no apply_repeat_penalty call so far in the turn
NoPenaltyCall == [called |-> FALSE, ctx |-> << >>]

\* ------------------------------------------------------ command lines
Temperatures == {-1, 0, 1}
TopKs == {NoneOpt, SomeOpt(2)}
TopPs == {NoneOpt, SomeOpt(50)}
RepeatPenalties == {1, 2}

ArgsSet ==
    [prompt : PromptArgs,
     which : ModelWhichs,
     sample_len : 0 .. MaxSampleLen,
     temperature : Temperatures,
     top_k : TopKs,
     top_p : TopPs,
     seed : {DEFAULT_SEED},
     split_prompt : BOOLEAN,
     repeat_penalty : RepeatPenalties,
     repeat_last_n : {1, DEFAULT_REPEAT_LAST_N}]

\* The command lines explored.  A single turn (Prompt::One) is run under
\* every sampling choice without repeat penalty, and with the penalty
\* (window 1 or the default) under greedy and under temperature-only
\* sampling.  The looping modes are run with sample_len up to
\* MaxLoopSampleLen, under greedy sampling with and without the penalty and
\* under temperature-only sampling.  A negative temperature is run in a
\* single turn without penalty.
Explored(a) ==
    /\ a.temperature < 0 =>
          /\ PromptOf(a.prompt).kind = "One"
          /\ a.repeat_penalty = 1
          /\ ~a.split_prompt
    /\ \/ a.repeat_penalty = 1 /\ a.repeat_last_n = DEFAULT_REPEAT_LAST_N
       \/ /\ a.repeat_penalty # 1
          /\ ~a.top_k.some /\ ~a.top_p.some
          /\ (a.temperature > 0 => a.repeat_last_n = DEFAULT_REPEAT_LAST_N)
    /\ PromptOf(a.prompt).kind # "One" =>
          /\ a.sample_len <= MaxLoopSampleLen
          /\ ~a.top_k.some /\ ~a.top_p.some
          /\ (a.repeat_penalty # 1 => a.temperature <= 0 /\ a.repeat_last_n = 1)

\* ------------------------------------------------------------------- Init
\* main up to the prompt loop (204-291)
Init ==
    /\ args \in {a \in ArgsSet : Explored(a)}
    /\ vocab_has_eos \in BOOLEAN
    /\ stdin_eof = FALSE
    /\ prompt = PromptOf(args.prompt)
    /\ prompt_index = 0
    /\ pc = "read"
    /\ prompt_str = << >>
    /\ tokens = << >>
    /\ combined = << >>
    /\ pre_prompt_tokens = << >>
    /\ prompt_tokens = << >>
    /\ all_tokens = << >>
    /\ logits_processor = from_sampling(args.seed, [kind |-> "ArgMax"])
    /\ next_token = 0
    /\ logits = [v \in Vocab |-> 0]
    /\ raw_logits = [v \in Vocab |-> 0]
    /\ penalty_ctx = NoPenaltyCall
    /\ user_text = << >>
    /\ pos = 0
    /\ index = 0
    /\ sampled = 0
    /\ eos_token = 0
    /\ tos_tokens = << >>
    /\ calls = << >>
    /\ flushes = 0

\* the sampler of the previous turn carried on
TurnSampler_Kept(prev, seed, sampling) == [prev EXCEPT !.sampling = sampling]

\* 348-361: each turn builds its sampler anew from the seed
TurnSampler(prev, seed, sampling) == from_sampling(seed, sampling)

\* ------------------------------------------------------------- the turn
\* 327-361: encode, concatenate with the history, bound to the window,
\* fresh all_tokens and sampler
StartTurn(text, str, eof) ==
    LET enc == Encode(str, args.which, vocab_has_eos)
        cat == pre_prompt_tokens \o enc
    IN /\ user_text' = text
       /\ penalty_ctx' = NoPenaltyCall
       /\ prompt_str' = str
       /\ tokens' = enc
       /\ combined' = cat
       /\ prompt_tokens' = ContextWindow(cat, ToSample(args.sample_len))
       /\ all_tokens' = << >>
       /\ logits_processor' =
            TurnSampler(logits_processor, args.seed,
                        SamplingOf(args.temperature, args.top_k, args.top_p))
       /\ stdin_eof' = eof
       /\ prompt_index' = prompt_index + 1
       /\ next_token' = 0
       /\ pos' = 0
       /\ index' = 0
       /\ sampled' = 0
       /\ calls' = << >>
       /\ flushes' = 0
       /\ pc' = "prompt"
       /\ UNCHANGED <<cfg_vars, raw_logits, pre_prompt_tokens, logits, eos_token,
                      tos_tokens>>

\* 292-303 then 327-361
CanReadPromptOne ==
    /\ pc = "read"
    /\ prompt.kind = "One"
    /\ prompt_index < MaxTurns

ReadPromptOne ==
    /\ CanReadPromptOne
    /\ StartTurn(prompt.text, RenderOne(args.which, prompt.text), stdin_eof)

\* 304-326 then 327-361: read_line leaves the buffer empty at end of input
CanReadPromptLine ==
    /\ pc = "read"
    /\ prompt.kind \in {"Interactive", "Chat"}
    /\ prompt_index < MaxTurns

ReadPromptLine ==
    /\ CanReadPromptLine
    /\ \E line \in IF stdin_eof THEN {EndOfInput} ELSE StdinLines \cup {EndOfInput} :
          StartTurn(StripLine(line),
                    RenderInteractive(args.which, StripLine(line)),
                    line = EndOfInput)

\* 364-368: the whole prompt in one forward call
CanPromptBatched ==
    /\ pc = "prompt"
    /\ ~args.split_prompt

PromptBatched ==
    /\ CanPromptBatched
    /\ \E out \in LogitsSet :
          LET r == Sample(logits_processor, out)
          IN /\ raw_logits' = out
             /\ logits' = out
             /\ next_token' = r.token
             /\ logits_processor' = r.lp
    /\ calls' = Append(calls, <<0, Len(prompt_tokens), prompt_tokens>>)
    /\ pc' = "first"
    /\ UNCHANGED <<cfg_vars, penalty_ctx, user_text, stdin_eof, prompt_index,
                   prompt_str, tokens, combined, pre_prompt_tokens, prompt_tokens,
                   all_tokens, pos, index, sampled, eos_token, tos_tokens, flushes>>

\* 364-368 as a function: the first token of the batched path
BatchedFirst(lp, l) == Sample(lp, l).token

\* 370-377 as a function: the split path samples at every prompt position
\* (ls holds the logits of each position) and keeps the last token, or 0
\* when there is no position
RECURSIVE SplitRun(_, _)
SplitRun(lp, ls) ==
    IF ls = << >> THEN [token |-> 0, lp |-> lp]
    ELSE Sample(SplitRun(lp, SubSeq(ls, 1, Len(ls) - 1)).lp, Last(ls))

SplitFirst(lp, ls) == SplitRun(lp, ls).token

\* 370-376: one iteration of the split prompt loop
CanPromptSplitStep ==
    /\ pc = "prompt"
    /\ args.split_prompt
    /\ pos < Len(prompt_tokens)

PromptSplitStep ==
    /\ CanPromptSplitStep
    /\ \E out \in LogitsSet :
          LET r == Sample(logits_processor, out)
          IN /\ raw_logits' = out
             /\ logits' = out
             /\ next_token' = r.token
             /\ logits_processor' = r.lp
    /\ calls' = Append(calls, <<pos, 1, <<prompt_tokens[pos + 1]>>>>)
    /\ pos' = pos + 1
    /\ UNCHANGED <<cfg_vars, penalty_ctx, user_text, stdin_eof, prompt_index, pc,
                   prompt_str, tokens, combined, pre_prompt_tokens, prompt_tokens,
                   all_tokens, index, sampled, eos_token, tos_tokens, flushes>>

\* 377: the split prompt loop is over
CanPromptSplitDone ==
    /\ pc = "prompt"
    /\ args.split_prompt
    /\ pos >= Len(prompt_tokens)

PromptSplitDone ==
    /\ CanPromptSplitDone
    /\ pc' = "first"
    /\ UNCHANGED <<cfg_vars, raw_logits, penalty_ctx, user_text, stdin_eof,
                   prompt_index, prompt_str, tokens, combined,
                   pre_prompt_tokens, prompt_tokens, all_tokens, logits_processor,
                   next_token, logits, pos, index, sampled, eos_token, tos_tokens,
                   calls, flushes>>

\* TosPush leaving the token out of the output stream
TosPush_Skipped(tos, tok) == tos

\* 381, 410: tos.next_token(next_token) takes the token into the stream
TosPush(tos, tok) == Append(tos, tok)

\* EosLookup falling back on token 0 when the marker is missing
EosLookup_OrZero(has_eos) == SomeOpt(IF has_eos THEN EosId ELSE 0)

\* 391: get_vocab(true).get(eos_token), None when the marker is missing
EosLookup(has_eos) == IF has_eos THEN SomeOpt(EosId) ELSE NoneOpt

\* 379-394: the first token enters all_tokens and the output stream, then
\* the end-of-sequence id is looked up; unwrap panics on a missing marker
CanFirstToken == pc = "first"

FirstToken ==
    /\ CanFirstToken
    /\ all_tokens' = Append(all_tokens, next_token)
    /\ tos_tokens' = TosPush(tos_tokens, next_token)
    /\ LET found == EosLookup(vocab_has_eos)
       IN IF found.some
          THEN /\ eos_token' = found.v
               /\ pc' = "gen"
          ELSE /\ eos_token' = eos_token
               /\ pc' = "panic"
    /\ index' = 0
    /\ sampled' = 0
    /\ UNCHANGED <<cfg_vars, raw_logits, penalty_ctx, user_text, stdin_eof,
                   prompt_index, prompt_str, tokens, combined,
                   pre_prompt_tokens, prompt_tokens, logits_processor, next_token,
                   logits, pos, calls, flushes>>

\* the slice of all_tokens given to the repeat penalty (402, 406)
PenaltyContext(toks, last_n) == SubSeq(toks, SatSub(Len(toks), last_n) + 1, Len(toks))

\* 416: the stop test of the generation loop
IsStop(tok, eos) == tok = eos

\* GenPosition counting from the start of the generation loop only
GenPosition_IndexOnly(prompt_len, i) == i

\* 397: the position of a forward call of the generation loop
GenPosition(prompt_len, i) == prompt_len + i

\* 395-419: one iteration of the generation loop
CanGenStep ==
    /\ pc = "gen"
    /\ index < ToSample(args.sample_len)

GenStep ==
    /\ CanGenStep
    /\ \E out \in LogitsSet :
          LET given == IF args.repeat_penalty = 1 THEN out
                       ELSE apply_repeat_penalty(
                               out, args.repeat_penalty,
                               PenaltyContext(all_tokens, args.repeat_last_n))
              r == Sample(logits_processor, given)
          IN /\ raw_logits' = out
             /\ penalty_ctx' =
                   IF args.repeat_penalty = 1 THEN penalty_ctx
                   ELSE [called |-> TRUE,
                         ctx |-> PenaltyContext(all_tokens, args.repeat_last_n)]
             /\ logits' = given
             /\ next_token' = r.token
             /\ logits_processor' = r.lp
             /\ all_tokens' = Append(all_tokens, r.token)
             /\ tos_tokens' = TosPush(tos_tokens, r.token)
             /\ pc' = IF IsStop(r.token, eos_token) THEN "flush" ELSE "gen"
    /\ calls' = Append(calls, <<GenPosition(Len(prompt_tokens), index), 1,
                              <<next_token>>>>)
    /\ sampled' = sampled + 1
    /\ index' = index + 1
    /\ UNCHANGED <<cfg_vars, user_text, stdin_eof, prompt_index, prompt_str, tokens,
                   combined, pre_prompt_tokens, prompt_tokens, pos, eos_token,
                   flushes>>

\* 395: the range of the generation loop is exhausted
CanGenDone ==
    /\ pc = "gen"
    /\ index >= ToSample(args.sample_len)

GenDone ==
    /\ CanGenDone
    /\ pc' = "flush"
    /\ UNCHANGED <<cfg_vars, raw_logits, penalty_ctx, user_text, stdin_eof,
                   prompt_index, prompt_str, tokens, combined,
                   pre_prompt_tokens, prompt_tokens, all_tokens, logits_processor,
                   next_token, logits, pos, index, sampled, eos_token, tos_tokens,
                   calls, flushes>>

\* LoopBreaks without the break of the Prompt::One arm
LoopBreaks_Never(p) == FALSE

\* 436: only Prompt::One leaves the loop
LoopBreaks(p) == p.kind = "One"

\* NextPrePrompt carrying only the generated tokens
NextPrePrompt_GeneratedOnly(p, pre, ptoks, atoks) ==
    IF p.kind = "Chat" THEN atoks ELSE pre

\* NextPrePrompt accumulating in the Interactive arm too
NextPrePrompt_Interactive(p, pre, ptoks, atoks) ==
    IF p.kind \in {"Chat", "Interactive"} THEN ptoks \o atoks ELSE pre

\* 435-441: the history carried into the next turn
NextPrePrompt(p, pre, ptoks, atoks) ==
    IF p.kind = "Chat" THEN ptoks \o atoks ELSE pre

\* 420-442: flush the output stream, report, then break or loop
CanTurnComplete == pc = "flush"

TurnComplete ==
    /\ CanTurnComplete
    /\ flushes' = flushes + 1
    /\ pre_prompt_tokens' =
          NextPrePrompt(prompt, pre_prompt_tokens, prompt_tokens, all_tokens)
    /\ pc' = IF LoopBreaks(prompt) THEN "done" ELSE "read"
    /\ UNCHANGED <<cfg_vars, raw_logits, penalty_ctx, user_text, stdin_eof,
                   prompt_index, prompt_str, tokens, combined,
                   prompt_tokens, all_tokens, logits_processor, next_token, logits,
                   pos, index, sampled, eos_token, tos_tokens, calls>>

Next ==
    \/ ReadPromptOne
    \/ ReadPromptLine
    \/ PromptBatched
    \/ PromptSplitStep
    \/ PromptSplitDone
    \/ FirstToken
    \/ GenStep
    \/ GenDone
    \/ TurnComplete

\* main has a next statement to run: the guard of some action holds (what
\* an action assigns is always defined, so its guard alone enables it)
HasStep ==
    \/ CanReadPromptOne
    \/ CanReadPromptLine
    \/ CanPromptBatched
    \/ CanPromptSplitStep
    \/ CanPromptSplitDone
    \/ CanFirstToken
    \/ CanGenStep
    \/ CanGenDone
    \/ CanTurnComplete

Spec == Init /\ [][Next]_vars


\* ---------------------------------------------------------------- claims
InTurn == pc \in {"prompt", "first", "gen", "flush"}
TurnDone == prompt_index >= 1 /\ pc \in {"read", "done"}
Window == MAX_SEQ_LEN - CONTEXT_MARGIN

\* C1: the sequence that leaves the context-window step, plus the number of
\* tokens to generate, fits in MAX_SEQ_LEN - 10, whatever the combined
\* sequence and the sample length are.
C1_ContextBound ==
    prompt_index >= 1 =>
        Len(prompt_tokens) + ToSample(args.sample_len) <= Window

\* C2: the end-of-sequence token occurs in the generated tokens of a turn
\* only as the last one: nothing is appended (and no forward call made)
\* once it is there, the first sampled token included.
C2_EosOnlyLast ==
    vocab_has_eos =>
        \A i \in 1 .. (Len(all_tokens) - 1) : all_tokens[i] # EosId

\* C3: a turn appends at most sample_len tokens to the generated tokens,
\* and exactly sample_len when the end-of-sequence token is never sampled.
C3_GenerationBudget ==
    vocab_has_eos =>
        /\ Len(all_tokens) <= args.sample_len
        /\ (TurnDone /\ EosId \notin Range(all_tokens))
              => Len(all_tokens) = args.sample_len

\* C4: in Chat mode the history after a completed turn is that turn's
\* prompt tokens (as fed to the model) followed by its generated tokens,
\* and the combined sequence of a turn is the history followed by the
\* newly encoded prompt.
C4_ChatAccumulation ==
    prompt.kind = "Chat" =>
        /\ (prompt_index >= 1 /\ pc = "read")
              => pre_prompt_tokens = prompt_tokens \o all_tokens
        /\ InTurn => combined = pre_prompt_tokens \o tokens

\* a second Chat turn whose combined sequence starts with the first turn's
\* prompt and generated tokens
C4_Witness ==
    /\ prompt.kind = "Chat"
    /\ prompt_index = 2
    /\ pc = "prompt"
    /\ Len(pre_prompt_tokens) >= 3
    /\ Len(tokens) > 0
    /\ combined = pre_prompt_tokens \o tokens

\* C5: the sequence that leaves the context-window step is a suffix of the
\* combined sequence.
C5_Suffix ==
    prompt_index >= 1 => IsSuffix(prompt_tokens, combined)

\* a truncation that kept a proper, non-empty suffix which differs from the
\* prefix of the same length
C5_Witness ==
    /\ pc = "prompt"
    /\ 0 < Len(prompt_tokens)
    /\ Len(prompt_tokens) < Len(combined)
    /\ prompt_tokens # SubSeq(combined, 1, Len(prompt_tokens))


\* C6: in every state the prompt tokens in the model context plus the
\* tokens generated so far number at most MAX_SEQ_LEN, and every forward
\* call has position + input length <= MAX_SEQ_LEN (stated for the runs
\* whose vocabulary holds the end-of-sequence marker).
C6_HistoryBound ==
    vocab_has_eos =>
        /\ Len(prompt_tokens) + Len(all_tokens) <= MAX_SEQ_LEN
        /\ \A i \in 1 .. Len(calls) : calls[i][1] + calls[i][2] <= MAX_SEQ_LEN

\* C7: once a line read has reported end of input the session is over: no
\* turn is run (nothing is tokenized, no forward call is made).
C7_EofEndsSession ==
    stdin_eof => pc = "done"

\* the phases of main, in program order
Phase(p) ==
    CASE p = "read" -> 0
      [] p = "prompt" -> 1
      [] p = "first" -> 2
      [] p = "gen" -> 3
      [] p = "flush" -> 4
      [] OTHER -> 5

C8_OneShotSafety ==
    /\ prompt.kind = "One" =>
          /\ prompt_index <= 1
          /\ flushes <= 1
          /\ pos <= Len(prompt_tokens)
          /\ index <= ToSample(args.sample_len)
          /\ sampled <= ToSample(args.sample_len)
          /\ pc = "done" => (prompt_index = 1 /\ flushes = 1)
          /\ pc \notin {"done", "panic"} => HasStep
    /\ prompt.kind # "One" => pc # "done"

\* every OneShot step moves to a later phase, or advances the loop of its
\* phase
C8_OneShotProgress ==
    prompt.kind = "One" =>
        \/ Phase(pc') > Phase(pc)
        \/ Phase(pc') = Phase(pc) /\ pos' + index' > pos + index

\* C8: a OneShot run executes one turn (one prompt phase, at most
\* sample_len - 1 generating steps, one flush) and then terminates: it has a
\* next statement to run until it is done, every step makes progress in a bounded
\* measure, and it is never in a second turn.  Interactive and Chat go back
\* to reading after a completed turn and are never done.
C8_OneShot ==
    /\ []C8_OneShotSafety
    /\ [][C8_OneShotProgress]_vars
    /\ [][(prompt.kind # "One" /\ pc = "flush") => pc' = "read"]_vars

\* a OneShot run that ended after generating steps
C8_Witness ==
    /\ prompt.kind = "One"
    /\ pc = "done"
    /\ prompt_index = 1
    /\ sampled >= 2

\* C9: outside Chat mode the history is empty in every state, so the
\* combined sequence of a turn is the newly encoded prompt.
C9_NoAccumulation ==
    prompt.kind # "Chat" =>
        /\ pre_prompt_tokens = << >>
        /\ prompt_index >= 1 => combined = tokens

\* a second Interactive turn, after a first one that generated tokens
C9_Witness ==
    /\ prompt.kind = "Interactive"
    /\ prompt_index = 2
    /\ pc = "prompt"
    /\ Len(tos_tokens) >= 2
    /\ Len(tokens) > 0
    /\ combined = tokens

\* C10: for a non-empty prompt, the first sampled token is the one the
\* other prompt path yields from the same final-position logits, in every
\* sampling mode (stated for the runs whose vocabulary holds the
\* end-of-sequence marker).
C10_PathsAgree ==
    (vocab_has_eos /\ pc = "first" /\ Len(prompt_tokens) > 0) =>
        LET lp0 == from_sampling(args.seed,
                                 SamplingOf(args.temperature, args.top_k, args.top_p))
        IN next_token =
              IF args.split_prompt
              THEN BatchedFirst(lp0, logits)
              ELSE SplitFirst(lp0, [i \in 1 .. Len(prompt_tokens) |-> logits])

\* the sampler is the one built from the command line alone, advanced by
\* the samples of this turn
C11_FreshSampler ==
    InTurn =>
        LET sampling == SamplingOf(args.temperature, args.top_k, args.top_p)
        IN logits_processor =
              [seed |-> args.seed,
               draws |-> IF sampling.kind = "ArgMax" THEN 0 ELSE Len(calls),
               sampling |-> sampling]

\* the token of a forward call is the one a sampler built from the command
\* line yields, after the earlier samples of this turn, from the logits of
\* the call penalised by the tokens generated in this turn
C11_TokenOfTurn ==
    Len(calls') = Len(calls) + 1 =>
        LET sampling == SamplingOf(args.temperature, args.top_k, args.top_p)
            lp == [seed |-> args.seed, draws |-> Len(calls), sampling |-> sampling]
            given == IF pc = "gen" /\ args.repeat_penalty # 1
                     THEN apply_repeat_penalty(
                             raw_logits', args.repeat_penalty,
                             PenaltyContext(all_tokens, args.repeat_last_n))
                     ELSE raw_logits'
        IN /\ next_token' = Sample(lp, given).token
           /\ pc = "gen" => all_tokens' = Append(all_tokens, next_token')

\* C11: the tokens a turn generates are a function of the logits of its
\* forward calls and of the seed, sampling and repeat-penalty settings: the
\* sampler starts every turn from the seed, so two turns with the same
\* logits generate the same tokens, however many turns ran before.
C11_TurnDeterminism ==
    /\ []C11_FreshSampler
    /\ [][C11_TokenOfTurn]_vars
    /\ [][pc = "first" => all_tokens' = <<next_token>>]_vars

\* a second turn sampling at random, after a first turn that took draws
C11_Witness ==
    /\ prompt_index = 2
    /\ logits_processor.sampling.kind = "All"
    /\ pc = "flush"
    /\ sampled >= 1
    /\ logits_processor.draws >= 2

\* C12: when the number of tokens to generate alone exceeds
\* MAX_SEQ_LEN - 10, the turn is aborted before any forward call: no call is
\* made and no token is generated.
C12_OverflowIsError ==
    ToSample(args.sample_len) > Window =>
        /\ calls = << >>
        /\ all_tokens = << >>

\* C13: the sampler of a turn is greedy when the temperature is zero or
\* less, whatever top_k and top_p are; otherwise it is temperature-only,
\* top-k, top-p or top-k-then-top-p as neither, top_k alone, top_p alone or
\* both are set; it is the same in every state of the turn.
C13_SamplingMode ==
    prompt_index >= 1 =>
        LET sampling == logits_processor.sampling
            k == args.top_k
            p == args.top_p
        IN /\ args.temperature <= 0 => sampling.kind = "ArgMax"
           /\ (args.temperature > 0 /\ ~k.some /\ ~p.some) => sampling.kind = "All"
           /\ (args.temperature > 0 /\ k.some /\ ~p.some) =>
                 sampling.kind = "TopK" /\ sampling.k = k.v
           /\ (args.temperature > 0 /\ ~k.some /\ p.some) =>
                 sampling.kind = "TopP" /\ sampling.p = p.v
           /\ (args.temperature > 0 /\ k.some /\ p.some) =>
                 /\ sampling.kind = "TopKThenTopP"
                 /\ sampling.k = k.v
                 /\ sampling.p = p.v
           /\ sampling.kind # "ArgMax" => sampling.temperature = args.temperature

\* a turn that generated greedily although top_k and top_p are both set
C13_Witness ==
    /\ args.temperature <= 0
    /\ args.top_k.some
    /\ args.top_p.some
    /\ pc = "flush"
    /\ sampled >= 2
    /\ logits_processor.sampling.kind = "ArgMax"

\* C14: the context-window step leaves the combined sequence unchanged
\* when it fits with the tokens to generate; otherwise it drops from the
\* front exactly len + to_generate - (MAX_SEQ_LEN - 10) tokens, or all of
\* them when that exceeds len.
C14_MinimalTruncation ==
    prompt_index >= 1 =>
        LET len == Len(combined)
            over == len + ToSample(args.sample_len) - Window
        IN IF over <= 0
           THEN prompt_tokens = combined
           ELSE len - Len(prompt_tokens) = IF over < len THEN over ELSE len

\* C15: in a turn, on the batched and on the split prompt path, every
\* forward call is made at the position that equals the number of tokens
\* fed by the earlier calls of the turn, so positions never decrease; the
\* prompt calls feed the prompt tokens in order, and every call of the
\* generation loop feeds one token, the last one appended to the generated
\* tokens.
C15_ForwardOrder ==
    LET np == Len(calls) - sampled
    IN /\ \A i \in 1 .. Len(calls) :
             /\ calls[i][2] = Len(calls[i][3])
             /\ calls[i][1] = IF i = 1 THEN 0 ELSE calls[i - 1][1] + calls[i - 1][2]
             /\ i > 1 => calls[i][1] >= calls[i - 1][1]
       /\ \A i \in 1 .. np :
             calls[i][3] = IF args.split_prompt THEN <<prompt_tokens[i]>>
                           ELSE prompt_tokens
       /\ \A g \in 1 .. sampled :
             /\ calls[np + g][2] = 1
             /\ calls[np + g][3] = <<all_tokens[g]>>

\* a turn on the split path with several prompt calls and several calls of
\* the generation loop
C15_Witness ==
    /\ args.split_prompt
    /\ Len(prompt_tokens) >= 2
    /\ pc = "flush"
    /\ sampled >= 2
    /\ Len(calls) = Len(prompt_tokens) + sampled

\* C16: at the start of every turn, after any number of earlier turns, the
\* output stream holds no token of an earlier turn.
C16_FreshDecoder ==
    (pc = "prompt" /\ calls = << >>) => tos_tokens = << >>

\* C17: after every step of the generation loop: with a repeat penalty
\* other than 1 the filter was given the last min(repeat_last_n, length)
\* tokens of the prompt tokens in context followed by the tokens generated
\* before the step; with a penalty of 1 the filter was not called and the
\* sampler received the logits of the forward call unchanged.
C17_PenaltyWindow ==
    (pc \in {"gen", "flush"} /\ sampled >= 1) =>
        IF args.repeat_penalty # 1
        THEN LET hist == prompt_tokens \o SubSeq(all_tokens, 1, Len(all_tokens) - 1)
                 n == IF args.repeat_last_n < Len(hist) THEN args.repeat_last_n
                      ELSE Len(hist)
             IN /\ penalty_ctx.called
                /\ penalty_ctx.ctx = SubSeq(hist, Len(hist) - n + 1, Len(hist))
        ELSE /\ ~penalty_ctx.called
             /\ logits = raw_logits

\* the output stream ends with the generated tokens of the turn, and the
\* stream is flushed in no turn that is still running and once in a turn
\* that completed
C18_FedAndFlushed ==
    /\ IsSuffix(all_tokens, tos_tokens)
    /\ (InTurn \/ pc = "panic") => flushes = 0
    /\ TurnDone => flushes = 1

\* a token enters the output stream in the step that appends it to the
\* generated tokens, and in no other step; the flush comes when the
\* generation loop is over and feeds nothing
C18_FeedStep ==
    /\ all_tokens' # all_tokens =>
          \/ all_tokens' = << >> /\ tos_tokens' = tos_tokens
          \/ \E t \in Vocab : /\ all_tokens' = Append(all_tokens, t)
                              /\ tos_tokens' = Append(tos_tokens, t)
    /\ tos_tokens' # tos_tokens => Len(all_tokens') = Len(all_tokens) + 1
    /\ flushes' > flushes =>
          /\ pc = "flush"
          /\ flushes' = flushes + 1
          /\ UNCHANGED <<all_tokens, tos_tokens, calls>>

\* C18: every token appended to the generated tokens is passed to the
\* output stream once, in the same order and before the next forward call;
\* the stream is flushed once per completed turn, after the last token and
\* before the prompt loop breaks or reads the next prompt.
C18_DecoderFeeding ==
    /\ []C18_FedAndFlushed
    /\ [][C18_FeedStep]_vars

\* a second turn completed after two generated tokens, on top of the two
\* of the first turn
C18_Witness ==
    /\ prompt_index = 2
    /\ pc = "read"
    /\ flushes = 1
    /\ Len(all_tokens) = 2
    /\ Len(tos_tokens) = 4

\* C19: the rendered prompt depends on the text and the model family only:
\* in every mode it is the string the Prompt::One arm renders and the
\* string the Interactive/Chat arm renders for that text and family.
C19_RenderByFamily ==
    prompt_index >= 1 =>
        /\ prompt_str = RenderOne(args.which, user_text)
        /\ prompt_str = RenderInteractive(args.which, user_text)

\* without the end-of-sequence marker in the vocabulary no step of the
\* generation loop runs, no turn completes, the history stays empty and no
\* second turn starts
C20_NoGeneration ==
    ~vocab_has_eos =>
        /\ pc \notin {"gen", "flush", "done"}
        /\ sampled = 0
        /\ Len(calls) <= (IF args.split_prompt THEN Len(prompt_tokens) ELSE 1)
        /\ flushes = 0
        /\ pre_prompt_tokens = << >>
        /\ prompt_index <= 1

\* C20: when the family's end-of-sequence marker is not in the vocabulary
\* the turn is aborted at the lookup: no step of the generation loop runs,
\* the history is not updated, and the run ends there, so no later turn
\* starts.
C20_UnknownEosAborts ==
    /\ []C20_NoGeneration
    /\ [][pc # "panic"]_vars
    /\ [][(~vocab_has_eos /\ pc = "first") => pc' = "panic"]_vars

\* a Chat session aborted at the lookup of its first turn
C20_Witness ==
    /\ ~vocab_has_eos
    /\ prompt.kind = "Chat"
    /\ pc = "panic"
    /\ Len(calls) >= 1

====
